---- MODULE Spec2Model ----
(***************************************************************************)
(* TArrow: backtest server (Servers/backtest.py) and client core           *)
(* (Client/Core/gateway.py, controller.py, stock.py, trade.py).            *)
(*                                                                         *)
(* Spec        the bar synchronisation session: BacktestServer.start /     *)
(*             sendBars / finish against clients that follow               *)
(*             Controller.goLive (subscribe loop, finalise) and            *)
(*             Controller.listen.  The loader of start() is a placeholder  *)
(*             in the source; it is modelled as a choice of one sorted     *)
(*             bar sequence per subscribed symbol, in the documented       *)
(*             record layout.  Outbound polls of the session succeed       *)
(*             (connected peer, queue below the high-water mark).          *)
(* SpecFair    Spec with weak fairness of the server and of each client.   *)
(* SpecGateway one Gateway making send and request calls, outbound polls   *)
(*             succeeding or failing, while the peer puts any messages on  *)
(*             the inbound channel.                                        *)
(* SpecStock   one Stock with its Trades, fed bars the way                 *)
(*             Controller.listen feeds them: addLivePriceBar, then         *)
(*             processNewBar once more, a strategy's makeDecision placing  *)
(*             an order or not in each pass.  Prices are positive; the     *)
(*             reformatting of bar times and the reporting calls are left  *)
(*             out.                                                        *)
(* SpecSetup   the setup phase: the server's listen loop answering the     *)
(*             requests of two enrolled clients, of recognised and         *)
(*             unrecognised types.                                         *)
(* SpecOrders  SpecStock with setOrderFilled also called from outside the  *)
(*             stock.                                                      *)
(* SpecEnroll  BacktestServer.listenForConnectionRequests: handshakes,     *)
(*             port probing and channel registration.  The ports probed    *)
(*             are held by other processes in none, all but the last, or   *)
(*             all of the 500 offsets of a direction.                      *)
(* SpecTick    the session of Spec for one client with one stock, with     *)
(*             the stock: Controller.listen passes the stored bar to       *)
(*             addLivePriceBar and processNewBar on End of Live Bars.      *)
(*             Bar timestamps are taken as minutes.                        *)
(* SpecMonitor the trade monitors of Client/Core/trademonitor.py:          *)
(*             TimeLimitTradeMonitor and MultiTradeMonitor notified of a   *)
(*             bar, over all open times, bar times, limits and child       *)
(*             answers within the bounds.                                  *)
(* SpecConnect Gateway.connect: the attempts loop, each poll and reply of  *)
(*             the handshake server chosen freely.                         *)
(* SpecTrades  SpecStock with Stock.startOrder, Trade.close and            *)
(*             Trade.runSafetyFeatures also called from outside a pass,    *)
(*             as a strategy or a monitor may call them.                   *)
(***************************************************************************)
EXTENDS Integers, Sequences, FiniteSets, TLC

\* ------------------------------------------------------------------ bounds
\* longest bar sequence loaded for a symbol, and the latest timestamp
MaxBars == 3
MaxTime == 3

\* symbols available to the clients, in run.py's sorted order
Symbols == <<"A", "B">>
SymbolSet == {Symbols[i] : i \in 1..Len(Symbols)}
\* run.py starts at most one client process per symbol
NumClients == Len(Symbols)
\* channel keys the enrollment phase can issue (1, 2, ...)
Channels == 1..NumClients
Times == 0..MaxTime

\* Python's None, and a dictionary key that was deleted
None == -1

\* ----------------------------------------------------------------- helpers
Range(s) == {s[i] : i \in 1..Len(s)}

RECURSIVE SetToSeq(_)
SetToSeq(S) == IF S = {} THEN <<>>
               ELSE LET x == CHOOSE y \in S : \A z \in S : y <= z
                    IN  <<x>> \o SetToSeq(S \ {x})

RECURSIVE SeqMin(_)
SeqMin(s) == IF Len(s) = 1 THEN s[1]
             ELSE LET m == SeqMin(Tail(s)) IN IF s[1] <= m THEN s[1] ELSE m

\* sorted by timestamp, one bar per timestamp (the bars of a symbol are the rows
\* of one time-indexed table)
IsSorted(s) == \A i \in 1..(Len(s) - 1) : s[i] < s[i + 1]

\* the bar sequences a loader can produce for one symbol
SortedTimeSeqs == {s \in UNION {[1..n -> Times] : n \in 0..MaxBars} : IsSorted(s)}

\* one loaded bar, in the layout documented in start(): 'Time' is the string
\* form of the bar index, 'UnconvertedTime' the index itself
MakeBar(t) == [Time |-> t, UnconvertedTime |-> t]

\* an insertion-ordered dictionary is a sequence of <<key, value>> pairs
Keys(d) == [i \in 1..Len(d) |-> d[i][1]]
HasKey(d, k) == \E i \in 1..Len(d) : d[i][1] = k
Get(d, k) == d[CHOOSE i \in 1..Len(d) : d[i][1] = k][2]
Put(d, k, v) == IF HasKey(d, k)
                THEN [i \in 1..Len(d) |-> IF d[i][1] = k THEN <<k, v>> ELSE d[i]]
                ELSE Append(d, <<k, v>>)

\* the symbol subsets a client process can be started with
RECURSIVE SubSeqOf(_, _)
SubSeqOf(s, S) == IF s = <<>> THEN <<>>
                  ELSE (IF s[1] \in S THEN <<s[1]>> ELSE <<>>) \o SubSeqOf(Tail(s), S)

ClientSymbolLists == {SubSeqOf(Symbols, S) : S \in (SUBSET SymbolSet) \ {{}}}

VARIABLES
  \* ---- BacktestServer
  pc,                  \* position of the server in start / sendBars / finish
  sockets_in,          \* keys of self.sockets_in (and sockets_out): the enrolled channels
  ready,               \* self.ready: channel key -> request id of its last Finalise
  do_listen,           \* self.do_listen
  do_continue,         \* sendBars' local do_continue
  bars,                \* self.bars: ordered dict symbol -> sequence of bars
  symbols_to_requests, \* self.symbols_to_requests: ordered dict symbol -> <<key, id>>*
  connection_bars,     \* sendBars' local connection_bars still to be sent
  listen_i,            \* position of the for loop over sockets_in
  \* ---- the two unidirectional channels of each client
  toServer,            \* client -> server queue (server's sockets_in[key])
  toClient,            \* server -> client queue (server's sockets_out[key])
  \* ---- Gateway / Controller of each client
  cl_pc,               \* position of the client
  cl_symbols,          \* symbols the client still has to subscribe to
  request_id,          \* Gateway.request_id
  status_id,           \* Gateway.status_id
  request_to_stock,    \* Gateway.request_to_stock: ordered dict id -> symbol
  cached_results,      \* Gateway.cached_results: ordered dict id -> messages
  new_bars,            \* Controller.new_bars: ordered dict symbol -> bar
  \* ---- one call of Gateway.request in progress (client 1, SpecGateway)
  g_pc,                \* "idle", or inside _receive's loop: "waiting", "listening"
  g_awaited,           \* the request id the call waits for
  g_out,               \* how the last call ended, and what it returned
  \* ---- one Stock and its Trades (SpecStock)
  st_pc,               \* "idle", or "added" between the two passes of Controller.listen
  current_bar,         \* Stock.current_bar
  current_time,        \* Stock.current_time
  previous_time,       \* Stock.previous_time
  trades,              \* Stock.trades, each entry a Trade
  open_orders,         \* Stock.open_orders: ordered dict order id -> index in trades
  close_orders,        \* Stock.close_orders: ordered dict order id -> index in trades
  unique_id,           \* Stock.unique_id
  \* ---- history (not read by the program)
  sentLog,             \* every message the server sent, in order, with its tick
  tick,                \* number of iterations of sendBars' loop started
  finSince,            \* keys whose Finalise was received since the last batches
  loaded,              \* the bar timestamps as loaded: symbol -> sequence
  assigned,            \* per client, the request ids Gateway.send assigned, in order
  bar_no,              \* number of bars delivered to the stock
  barOpens,            \* the open price of each bar delivered to the stock
  last_fill,           \* the last setOrderFilled call made from outside the stock
  \* ---- BacktestServer.listenForConnectionRequests
  num_clients,         \* self.num_clients
  sockets_out,         \* keys of self.sockets_out
  pollers_in,          \* keys of self.pollers_in
  pollers_out,         \* keys of self.pollers_out
  en_pc,               \* "enrolling", "returned" or "crashed"
  en_i,                \* iterations of "for _ in range(self.num_clients)" done
  ports_in,            \* offsets from the inbound base of the ports in use
  ports_out,           \* offsets from the outbound base of the ports in use
  hs_waiting,          \* handshakes sent and not yet received by the server
  hs_sent,             \* handshakes sent so far (history)
  hs_log,              \* what each received handshake was answered (history)
  \* ---- one call of Gateway.connect (SpecConnect)
  cn_pc,               \* "idle", "poll", "recv", "returned" or "quit"
  attempts,            \* connect's local attempts
  cn_sent,             \* handshakes sent by this call (history)
  cn_result,           \* how each attempt ended (history)
  \* ---- one trade monitor call (SpecMonitor)
  mon                  \* the arguments of notify_single and what it returned

serverVars == <<pc, sockets_in, ready, do_listen, do_continue, bars, symbols_to_requests,
                connection_bars, listen_i>>
chanVars == <<toServer, toClient>>
clientVars == <<cl_pc, cl_symbols, request_id, status_id, request_to_stock,
                cached_results, new_bars, assigned>>
histVars == <<sentLog, tick, finSince, loaded>>
gwVars == <<g_pc, g_awaited, g_out>>
stockVars == <<st_pc, current_bar, current_time, previous_time, trades, open_orders,
               close_orders, unique_id, bar_no, barOpens, last_fill>>
enrollVars == <<num_clients, sockets_out, pollers_in, pollers_out, en_pc, en_i,
                ports_in, ports_out, hs_waiting, hs_sent, hs_log>>
\* one call of Gateway.connect, and one call of a trade monitor
sideVars == <<cn_pc, attempts, cn_sent, cn_result, mon>>
vars == <<serverVars, chanVars, clientVars, histVars, gwVars, stockVars, enrollVars, sideVars>>

\* ------------------------------------------------------------- wire records
NoBar == [Time |-> None, UnconvertedTime |-> None]
Msg(type, id, symbol, bar) == [Type |-> type, RequestID |-> id, Symbol |-> symbol, Bar |-> bar]

\* ------------------------------------------------------------ BacktestServer
\* send: the poll of the outbound socket succeeds and the message is queued
send(q, connectionID, message) == [q EXCEPT ![connectionID] = Append(@, message)]

Logged(log, connectionID, t, msgs) ==
  log \o [i \in 1..Len(msgs) |-> [conn |-> connectionID, tick |-> t, msg |-> msgs[i]]]

\* mutant: the barrier opens as soon as one channel has finalised
AllReady_AnyReady(r) == Cardinality(DOMAIN r) >= 1

\* connectionFinalised's test: len(self.ready) == len(self.sockets_in)
AllReady(r) == Cardinality(DOMAIN r) = Cardinality(sockets_in)

connectionFinalised(connectionID, input) ==
  /\ ready' = [k \in (DOMAIN ready) \cup {connectionID} |->
                 IF k = connectionID THEN input.RequestID ELSE ready[k]]
  /\ do_listen' = IF AllReady(ready') THEN FALSE ELSE do_listen
  /\ finSince' = finSince \cup {connectionID}
  /\ UNCHANGED <<symbols_to_requests, toClient, sentLog>>

\* mutant: a subscription replaces the symbol's list instead of joining it
requestLiveData_Replace(connectionID, input) ==
  /\ symbols_to_requests' =
       Put(symbols_to_requests, input.Symbol, << <<connectionID, input.RequestID>> >>)
  /\ UNCHANGED <<ready, do_listen, finSince, toClient, sentLog>>

requestLiveData(connectionID, input) ==
  /\ symbols_to_requests' =
       Put(symbols_to_requests, input.Symbol,
           (IF HasKey(symbols_to_requests, input.Symbol)
            THEN Get(symbols_to_requests, input.Symbol) ELSE <<>>)
           \o << <<connectionID, input.RequestID>> >>)
  /\ UNCHANGED <<ready, do_listen, finSince, toClient, sentLog>>

\* mutant: the request type is sent back as the type of the reply
ReplyType_Echo(requestType) == requestType

\* the reply of parseIsReady, requestAccounts, requestStock and of the final
\* else branch of parseInput
ReplyType(requestType) ==
  CASE requestType = "IsReady" -> "IsReady"
    [] requestType = "Request Accounts" -> "Accounts"
    [] requestType = "Request Stock" -> "Stock Response"
    [] OTHER -> "Fatal Error"

reply(connectionID, input) ==
  LET m == Msg(ReplyType(input.Type), input.RequestID, input.Symbol, NoBar) IN
  /\ toClient' = send(toClient, connectionID, m)
  /\ sentLog' = Logged(sentLog, connectionID, tick, <<m>>)
  /\ UNCHANGED <<ready, do_listen, finSince, symbols_to_requests>>

parseInput(connectionID, input) ==
  CASE input.Type = "Request Live Data" -> requestLiveData(connectionID, input)
    [] input.Type = "Finalise" -> connectionFinalised(connectionID, input)
    [] OTHER -> reply(connectionID, input)

\* where the server goes when a pass of "for i in self.sockets_in" ends with
\* do_listen false: start() goes on to load, sendBars to its next iteration
AfterListen == IF pc = "setup" THEN "load"
               ELSE IF do_continue THEN "tick" ELSE "finish"

\* one call of listen(i) in the loops of start() and sendBars()
listen ==
  /\ UNCHANGED <<gwVars, stockVars, enrollVars, sideVars>>
  /\ pc \in {"setup", "listen"}
  /\ LET i == listen_i IN
     /\ IF toServer[i] = <<>>
        THEN UNCHANGED <<ready, do_listen, finSince, symbols_to_requests,
                         toClient, sentLog, toServer>>
        ELSE /\ toServer' = [toServer EXCEPT ![i] = Tail(@)]
             /\ parseInput(i, Head(toServer[i]))
     /\ IF i < Cardinality(sockets_in)
        THEN listen_i' = i + 1 /\ pc' = pc
        ELSE listen_i' = 1 /\ pc' = IF do_listen' THEN pc ELSE AfterListen
  /\ UNCHANGED <<sockets_in, do_continue, bars, connection_bars, tick, loaded, clientVars>>

\* start(): the loader fills self.bars[symbol] for every subscribed symbol
start ==
  /\ UNCHANGED <<gwVars, stockVars, enrollVars, sideVars>>
  /\ pc = "load"
  /\ \E f \in [SymbolSet -> SortedTimeSeqs] :
       /\ \A s \in SymbolSet : ~HasKey(symbols_to_requests, s) => f[s] = <<>>
       /\ loaded' = f
       /\ bars' = [i \in 1..Len(symbols_to_requests) |->
                     LET s == symbols_to_requests[i][1] IN
                     <<s, [j \in 1..Len(f[s]) |-> MakeBar(f[s][j])]>>]
  /\ pc' = "tick"
  /\ UNCHANGED <<sockets_in, ready, do_listen, do_continue, symbols_to_requests, connection_bars,
                 listen_i, chanVars, clientVars, sentLog, tick, finSince>>

\* the front timestamps sendBars takes the minimum of
Fronts == LET ne == {i \in 1..Len(bars) : bars[i][2] # <<>>} IN
          [k \in 1..Cardinality(ne) |-> bars[SetToSeq(ne)[k]][2][1].UnconvertedTime]

\* mutant: a symbol is skipped only when it has no bar left
Skipped_NoTimeTest(symbol, earliest_time) == Get(bars, symbol) = <<>>

\* sendBars' test for skipping a symbol in the current tick
Skipped(symbol, earliest_time) ==
  \/ Get(bars, symbol) = <<>>
  \/ Get(bars, symbol)[1].UnconvertedTime > earliest_time

RECURSIVE Subscriptions(_)
Subscriptions(d) ==
  IF d = <<>> THEN <<>>
  ELSE [j \in 1..Len(d[1][2]) |-> <<d[1][1], d[1][2][j][1], d[1][2][j][2]>>]
       \o Subscriptions(Tail(d))

RECURSIVE Packages(_, _, _)
Packages(subs, earliest_time, acc) ==
  IF subs = <<>> THEN acc
  ELSE LET symbol == subs[1][1]
           connectionID == subs[1][2]
           requestID == subs[1][3]
       IN  IF Skipped(symbol, earliest_time)
           THEN Packages(Tail(subs), earliest_time, acc)
           ELSE Packages(Tail(subs), earliest_time,
                  Put(acc, connectionID,
                      (IF HasKey(acc, connectionID) THEN Get(acc, connectionID) ELSE <<>>)
                      \o << <<requestID, symbol>> >>))

\* sendBars, lines 372-388: earliest_time and connection_bars of one iteration.
\* min() of no front, or a front whose 'UnconvertedTime' was deleted, raises.
sendBarsCollect ==
  /\ UNCHANGED <<gwVars, stockVars, enrollVars, sideVars>>
  /\ pc = "tick"
  /\ tick' = tick + 1
  /\ IF Fronts = <<>> \/ None \in Range(Fronts)
     THEN pc' = "crashed" /\ UNCHANGED connection_bars
     ELSE /\ connection_bars' = Packages(Subscriptions(symbols_to_requests), SeqMin(Fronts), <<>>)
          /\ pc' = "sending"
  /\ UNCHANGED <<sockets_in, ready, do_listen, do_continue, bars, symbols_to_requests, listen_i,
                 chanVars, clientVars, sentLog, finSince, loaded>>

\* the Live Bar loop of sendLiveBars: "del bar['UnconvertedTime']" acts on the
\* bar object held in self.bars and raises when the key is already gone
RECURSIVE LiveBars(_, _, _)
LiveBars(package, b, out) ==
  IF package = <<>> THEN [msgs |-> out, bars |-> b, ok |-> TRUE]
  ELSE LET requestID == package[1][1]
           symbol == package[1][2]
           bar == Get(b, symbol)[1]
       IN  IF bar.UnconvertedTime = None
           THEN [msgs |-> out, bars |-> b, ok |-> FALSE]
           ELSE LET sentBar == [bar EXCEPT !.UnconvertedTime = None] IN
                LiveBars(Tail(package),
                         Put(b, symbol, [Get(b, symbol) EXCEPT ![1] = sentBar]),
                         Append(out, Msg("Live Bar", requestID, symbol, sentBar)))

\* mutant: the server counts on from the id of the last Finalise
MarkerID_Next(connectionID) == ready[connectionID] + 1

\* "RequestID": self.ready[connectionID] of the Prepare, End and Server Exit
\* messages
MarkerID(connectionID) == ready[connectionID]

\* sendBars, lines 389-390: sendLiveBars for the next connection of connection_bars.
\* self.ready[connectionID] raises when the connection has no readiness id.
sendLiveBars ==
  /\ UNCHANGED <<gwVars, stockVars, enrollVars, sideVars>>
  /\ pc = "sending"
  /\ connection_bars # <<>>
  /\ LET connectionID == connection_bars[1][1] IN
     IF connectionID \notin DOMAIN ready
     THEN pc' = "crashed" /\ UNCHANGED <<toClient, sentLog, bars>>
     ELSE LET r == LiveBars(connection_bars[1][2], bars, <<>>)
              msgs == <<Msg("Prepare for Live Bars", MarkerID(connectionID), "", NoBar)>>
                      \o r.msgs
                      \o (IF r.ok
                          THEN <<Msg("End of Live Bars", MarkerID(connectionID), "", NoBar)>>
                          ELSE <<>>)
          IN  /\ toClient' = [toClient EXCEPT ![connectionID] = @ \o msgs]
              /\ sentLog' = Logged(sentLog, connectionID, tick, msgs)
              /\ bars' = r.bars
              /\ pc' = IF r.ok THEN "sending" ELSE "crashed"
  /\ connection_bars' = Tail(connection_bars)
  /\ UNCHANGED <<sockets_in, ready, do_listen, do_continue, symbols_to_requests, listen_i,
                 toServer, clientVars, tick, finSince, loaded>>

\* sendBars, lines 392-395: which symbols lose their front bar
Popped(symbolBars) == Len(symbolBars) > 1

\* sendBars, lines 391-397: pop, clear the readiness set, listen again
sendBarsPop ==
  /\ UNCHANGED <<gwVars, stockVars, enrollVars, sideVars>>
  /\ pc = "sending"
  /\ connection_bars = <<>>
  /\ do_continue' = \E i \in 1..Len(bars) : Popped(bars[i][2])
  /\ bars' = [i \in 1..Len(bars) |->
                <<bars[i][1], IF Popped(bars[i][2]) THEN Tail(bars[i][2]) ELSE bars[i][2]>>]
  /\ ready' = <<>>
  /\ do_listen' = TRUE
  /\ listen_i' = 1
  /\ finSince' = {}
  /\ pc' = "listen"
  /\ UNCHANGED <<sockets_in, symbols_to_requests, connection_bars, chanVars, clientVars,
                 sentLog, tick, loaded>>

\* finish(): Server Exit to every channel in turn, then sys.exit(0); the loop
\* stops at the first channel without a readiness id (self.ready[...] raises)
finish ==
  /\ UNCHANGED <<gwVars, stockVars, enrollVars, sideVars>>
  /\ pc = "finish"
  /\ LET exitMsg(c) == Msg("Server Exit", MarkerID(c), "", NoBar)
         served == {c \in sockets_in : \A k \in 1..c : k \in DOMAIN ready}
     IN
     /\ toClient' = [c \in Channels |->
                       IF c \in served THEN Append(toClient[c], exitMsg(c)) ELSE toClient[c]]
     /\ sentLog' = sentLog \o [c \in 1..Cardinality(served) |->
                                 [conn |-> c, tick |-> tick, msg |-> exitMsg(c)]]
     /\ pc' = IF served = sockets_in THEN "done" ELSE "crashed"
  /\ UNCHANGED <<sockets_in, ready, do_listen, do_continue, bars, symbols_to_requests,
                 connection_bars, listen_i, toServer, clientVars, tick, finSince, loaded>>

\* ------------------------------------------------------- Gateway / Controller
\* Gateway._send with attempts=1: transmitted only when the outbound poll succeeds
Gateway_send_raw(q, c, to_send, pollOutput) ==
  IF pollOutput THEN [q EXCEPT ![c] = Append(@, to_send)] ELSE q

\* mutant: the counter advances only when the message was transmitted
NextRequestID_OnlyIfSent(rid, pollOutput) == IF pollOutput THEN rid + 1 ELSE rid

\* Gateway.send, line 187: the counter after a send
NextRequestID(rid, pollOutput) == rid + 1

\* Gateway.send: attach self.request_id, advance it, _send
Gateway_send(c, type, symbol, pollOutput) ==
  /\ request_id' = [request_id EXCEPT ![c] = NextRequestID(@, pollOutput)]
  /\ assigned' = [assigned EXCEPT ![c] = Append(@, request_id[c])]
  /\ toServer' = Gateway_send_raw(toServer, c, Msg(type, request_id[c], symbol, NoBar), pollOutput)

\* Gateway.finalise
Gateway_finalise(c, pollOutput) ==
  /\ Gateway_send(c, "Finalise", "", pollOutput)
  /\ status_id' = [status_id EXCEPT ![c] = request_id[c]]

\* Controller.goLive, lines 146-149: subscribe the next stock
goLiveSubscribe(c) ==
  /\ cl_pc[c] = "subscribe"
  /\ cl_symbols[c] # <<>>
  /\ Gateway_send(c, "Request Live Data", Head(cl_symbols[c]), TRUE)
  /\ request_to_stock' = [request_to_stock EXCEPT
                            ![c] = Put(@, request_id[c], Head(cl_symbols[c]))]
  /\ cl_symbols' = [cl_symbols EXCEPT ![c] = Tail(@)]
  /\ UNCHANGED <<serverVars, toClient, cl_pc, status_id, cached_results, new_bars,
                 histVars, gwVars, stockVars, enrollVars, sideVars>>

\* Controller.goLive, lines 150-152: finalise, then the listening loop
goLiveFinalise(c) ==
  /\ cl_pc[c] = "subscribe"
  /\ cl_symbols[c] = <<>>
  /\ Gateway_finalise(c, TRUE)
  /\ cl_pc' = [cl_pc EXCEPT ![c] = "listen"]
  /\ UNCHANGED <<serverVars, toClient, cl_symbols, request_to_stock, cached_results,
                 new_bars, histVars, gwVars, stockVars, enrollVars, sideVars>>

\* mutant: listen awaits the status id only
Awaited_StatusOnly(c) == {status_id[c]}

\* Gateway.listen: the ids _receive is called with
Awaited(c) == Range(Keys(request_to_stock[c])) \cup {status_id[c]}

\* Gateway._receive, lines 155-157: an awaited id with a non-empty cache entry
CacheHit(cache, ids) == \E i \in 1..Len(cache) : cache[i][1] \in ids /\ cache[i][2] # <<>>

\* mutant: the first message read is taken for the awaited one
Matches_Any(result, request_ids) == TRUE

\* Gateway._receive, line 171
Matches(result, request_ids) == result.RequestID \in request_ids

\* Gateway._receive, lines 174-178
Cache(cache, result) ==
  Put(cache, result.RequestID,
      (IF HasKey(cache, result.RequestID) THEN Get(cache, result.RequestID) ELSE <<>>)
      \o <<result>>)

\* One iteration of Controller.listen: gateway.listen() and the branch on Type.
\* A cache hit hands the controller the cached list, and indexing it by "Type"
\* raises; a message that is not awaited is cached and the wait goes on.
Controller_receive(c) ==
  /\ IF CacheHit(cached_results[c], Awaited(c))
     THEN /\ cl_pc' = [cl_pc EXCEPT ![c] = "crashed"]
          /\ UNCHANGED <<chanVars, request_id, status_id, assigned, cached_results, new_bars>>
     ELSE /\ toClient[c] # <<>>
          /\ LET listen_input == Head(toClient[c])
                 type == IF Matches(listen_input, Awaited(c))
                         THEN listen_input.Type ELSE "(cached)"
                 known == HasKey(request_to_stock[c], listen_input.RequestID)
             IN
             /\ toClient' = [toClient EXCEPT ![c] = Tail(@)]
             /\ cached_results' = IF type = "(cached)"
                                  THEN [cached_results EXCEPT ![c] = Cache(@, listen_input)]
                                  ELSE cached_results
             /\ new_bars' =
                  CASE type = "Prepare for Live Bars" -> [new_bars EXCEPT ![c] = <<>>]
                    [] type = "Live Bar" /\ known ->
                         [new_bars EXCEPT ![c] =
                            Put(@, Get(request_to_stock[c], listen_input.RequestID),
                                listen_input.Bar.Time)]
                    [] OTHER -> new_bars
             /\ cl_pc' =
                  CASE type = "Live Bar" /\ ~known -> [cl_pc EXCEPT ![c] = "crashed"]
                    [] type = "Server Exit" -> [cl_pc EXCEPT ![c] = "exited"]
                    [] OTHER -> cl_pc
             /\ IF type = "End of Live Bars"
                THEN Gateway_finalise(c, TRUE)
                ELSE UNCHANGED <<toServer, request_id, status_id, assigned>>
  /\ UNCHANGED <<serverVars, cl_symbols, request_to_stock, histVars, gwVars, enrollVars, sideVars>>

\* Controller.listen of a client whose stocks are left out
Controller_listen(c) ==
  /\ cl_pc[c] = "listen"
  /\ Controller_receive(c)
  /\ UNCHANGED stockVars

\* ------------------------------------------------------------ specification
NoOutcome == [kind |-> "none", receive |-> "none", call |-> 0,
              result |-> Msg("", None, "", NoBar)]

\* ----------------------------------------------------------- Stock and Trade
\* A Stock is the record [trades, open_orders, close_orders, unique_id]; a
\* trade is referred to by its index in trades.  Times are minutes.  The
\* fields born, opened, close_ordered and closed of a trade record the bar
\* number at which the code created it, filled its open order, first issued a
\* close order and filled a close order.
trade_amount == 1000
minutes_forward == 30
stop_loss_threshold == 100
take_gain_threshold == 100

Prices == {100, 101}
Decisions == {-1, 0, 1}
BarSteps == {15, 30}

NoFill == [order_id |-> None, averagePrice |-> None, pending |-> FALSE, calls |-> 0]

NoPriceBar == [time |-> None, open |-> None, close |-> None]

Del(d, k) == SelectSeq(d, LAMBDA kv : kv[1] # k)

TheStock == [trades |-> trades, open_orders |-> open_orders,
             close_orders |-> close_orders, unique_id |-> unique_id]

\* mutant: the counter is returned without being advanced
addOrder_Same(S) == S

\* Stock.addOrder through Gateway.makeOrder
addOrder(S) == [S EXCEPT !.unique_id = @ + 1]

handleOpenOrder(S, t) ==
  LET S1 == addOrder(S) IN
  [S1 EXCEPT !.open_orders = Put(@, S1.unique_id, t)]

handleCloseOrder(S, t, n) ==
  LET S1 == addOrder(S) IN
  [S1 EXCEPT !.close_orders = Put(@, S1.unique_id, t),
             !.trades[t].close_ordered = IF @ = None THEN n ELSE @]

\* Trade.__init__
NewTrade(shares, action, time, n) ==
  [action |-> action, shares |-> shares, status |-> FALSE, open_time |-> time,
   close_time |-> time + minutes_forward, close_asap |-> FALSE,
   open_price |-> None, close_price |-> None, percent_return |-> <<None, None>>,
   profit |-> None, born |-> n, opened |-> None, close_ordered |-> None,
   closed |-> None]

startOrder(S, bar, time, buyOrSell, n) ==
  LET current_price == bar.close
      shares == (trade_amount * 100) \div (current_price * 100)
      S1 == [S EXCEPT !.trades = Append(@, NewTrade(shares, buyOrSell, time, n))]
  IN handleOpenOrder(S1, Len(S1.trades))

\* Stock.makeDecision of a strategy: no order, or startOrder(prediction)
makeDecision(S, bar, time, decision, n) ==
  IF decision = 0 THEN S ELSE startOrder(S, bar, time, decision, n)

\* mutant: the fill price of an open order is not recorded
Trade_openSuccess_NoPrice(tr, share_price, n) ==
  [tr EXCEPT !.status = TRUE, !.opened = n]

Trade_openSuccess(tr, share_price, n) ==
  [tr EXCEPT !.status = TRUE, !.open_price = share_price, !.opened = n]

\* mutant: the profit of a short trade is not negated
Trade_closeSuccess_Unsigned(tr, share_price, n) ==
  [tr EXCEPT !.status = FALSE, !.close_price = share_price,
             !.percent_return = <<(share_price - tr.open_price) * tr.action, tr.open_price>>,
             !.profit = (share_price - tr.open_price) * tr.shares,
             !.closed = n]

\* percent_return is kept as the fraction <<numerator, denominator>>
Trade_closeSuccess(tr, share_price, n) ==
  [tr EXCEPT !.status = FALSE, !.close_price = share_price,
             !.percent_return = <<(share_price - tr.open_price) * tr.action, tr.open_price>>,
             !.profit = (share_price - tr.open_price) * tr.shares * tr.action,
             !.closed = n]

\* mutant: an id that is not pending is taken for the close of the latest trade
setOrderFilled_LatestTrade(S, order_id, averagePrice, n) ==
  IF HasKey(S.open_orders, order_id)
  THEN LET t == Get(S.open_orders, order_id) IN
       [S EXCEPT !.trades[t] = Trade_openSuccess(@, averagePrice, n),
                 !.open_orders = Del(@, order_id)]
  ELSE IF HasKey(S.close_orders, order_id)
  THEN LET t == Get(S.close_orders, order_id) IN
       [S EXCEPT !.trades[t] = Trade_closeSuccess(@, averagePrice, n),
                 !.close_orders = Del(@, order_id)]
  ELSE IF S.trades # <<>>
  THEN [S EXCEPT !.trades[Len(S.trades)] = Trade_closeSuccess(@, averagePrice, n)]
  ELSE S

\* mutant: a filled open order stays in open_orders
setOrderFilled_KeepsOpenOrder(S, order_id, averagePrice, n) ==
  IF HasKey(S.open_orders, order_id)
  THEN LET t == Get(S.open_orders, order_id) IN
       [S EXCEPT !.trades[t] = Trade_openSuccess(@, averagePrice, n)]
  ELSE IF HasKey(S.close_orders, order_id)
  THEN LET t == Get(S.close_orders, order_id) IN
       [S EXCEPT !.trades[t] = Trade_closeSuccess(@, averagePrice, n),
                 !.close_orders = Del(@, order_id)]
  ELSE S

setOrderFilled(S, order_id, averagePrice, n) ==
  IF HasKey(S.open_orders, order_id)
  THEN LET t == Get(S.open_orders, order_id) IN
       [S EXCEPT !.trades[t] = Trade_openSuccess(@, averagePrice, n),
                 !.open_orders = Del(@, order_id)]
  ELSE IF HasKey(S.close_orders, order_id)
  THEN LET t == Get(S.close_orders, order_id) IN
       [S EXCEPT !.trades[t] = Trade_closeSuccess(@, averagePrice, n),
                 !.close_orders = Del(@, order_id)]
  ELSE S

RECURSIVE FillOrders(_, _, _, _)
FillOrders(S, order_ids, price, n) ==
  IF order_ids = <<>> THEN S
  ELSE FillOrders(setOrderFilled(S, Head(order_ids), price, n), Tail(order_ids), price, n)

Trade_close(S, t, time, n) ==
  LET S1 == [S EXCEPT !.trades[t].close_time = time] IN
  IF S1.trades[t].status
  THEN handleCloseOrder(S1, t, n)
  ELSE [S1 EXCEPT !.trades[t].close_asap = TRUE]

\* (1 - current_price / trade_price) * action > threshold, trade_price > 0
StopLossHit(tr, bar, threshold) ==
  (tr.open_price - bar.close) * tr.action > threshold * tr.open_price

TakeprofitHit(tr, bar, threshold) ==
  (bar.close - tr.open_price) * tr.action > threshold * tr.open_price

Trade_runSafetyFeatures(S, t, bar, time, n) ==
  IF ~S.trades[t].status THEN S
  ELSE LET S1 == IF S.trades[t].close_asap THEN Trade_close(S, t, time, n) ELSE S IN
       IF StopLossHit(S1.trades[t], bar, stop_loss_threshold)
       THEN Trade_close(S1, t, time, n)
       ELSE IF TakeprofitHit(S1.trades[t], bar, take_gain_threshold)
       THEN Trade_close(S1, t, time, n)
       ELSE S1

getCurrentTrades(S) == SelectSeq([i \in 1..Len(S.trades) |-> i], LAMBDA i : S.trades[i].status)

RECURSIVE CheckTrades(_, _, _, _, _)
CheckTrades(S, current, bar, time, n) ==
  IF current = <<>> THEN S
  ELSE LET t == Head(current)
           S1 == IF S.trades[t].close_time <= time
                 THEN Trade_close(S, t, time, n)
                 ELSE Trade_runSafetyFeatures(S, t, bar, time, n)
       IN CheckTrades(S1, Tail(current), bar, time, n)

\* the calls of setOrderFilled that the loop of lines 93-94 makes, each with
\* the stock before and after it
RECURSIVE FillCalls(_, _, _, _)
FillCalls(S, order_ids, price, n) ==
  IF order_ids = <<>> THEN {}
  ELSE LET S1 == setOrderFilled(S, Head(order_ids), price, n) IN
       {[before |-> S, order_id |-> Head(order_ids), averagePrice |-> price, after |-> S1]}
       \cup FillCalls(S1, Tail(order_ids), price, n)

\* the orders a pass fills (lines 91-92): all pending ones, those created by
\* this pass's decision included
OrdersToFill(S) == Keys(S.open_orders) \o Keys(S.close_orders)

\* Stock.processNewBar
processNewBar(S, bar, time, decision, n) ==
  LET S1 == makeDecision(S, bar, time, decision, n)
      S2 == FillOrders(S1, OrdersToFill(S1), bar.open, n)
  IN CheckTrades(S2, getCurrentTrades(S2), bar, time, n)

\* the stock before its first bar (Stock.__init__)
\* the state listenForConnectionRequests leaves when every expected client was
\* given a channel
Enrolled ==
  /\ num_clients = Cardinality(sockets_in)
  /\ sockets_out = sockets_in
  /\ pollers_in = sockets_in
  /\ pollers_out = sockets_in
  /\ en_pc = "returned"
  /\ en_i = num_clients
  /\ ports_in = 0..(num_clients - 1)
  /\ ports_out = 0..(num_clients - 1)
  /\ hs_waiting = 0
  /\ hs_sent = num_clients
  /\ hs_log = <<>>

StockInit ==
  /\ st_pc = "idle"
  /\ current_bar = NoPriceBar
  /\ current_time = None
  /\ previous_time = None
  /\ trades = <<>>
  /\ open_orders = <<>>
  /\ close_orders = <<>>
  /\ unique_id = 0
  /\ bar_no = 0
  /\ barOpens = <<>>
  /\ last_fill = NoFill

\* no monitor was called
NoMon == [open_time |-> 0, bar_time |-> 0, time_limit |-> 0, children |-> <<>>,
          single |-> "none", multi |-> "none"]

\* no connect and no monitor call in progress
SideIdle ==
  /\ cn_pc = "idle"
  /\ attempts = 0
  /\ cn_sent = 0
  /\ cn_result = <<>>
  /\ mon = NoMon

\* the gateway with no call in progress (Gateway.__init__)
GatewayIdle ==
  /\ g_pc = "idle"
  /\ g_awaited = None
  /\ g_out = NoOutcome

Init ==
  /\ pc = "setup"
  /\ sockets_in \in {1..n : n \in 1..NumClients}
  /\ ready = <<>>
  /\ do_listen = TRUE
  /\ do_continue = TRUE
  /\ bars = <<>>
  /\ symbols_to_requests = <<>>
  /\ connection_bars = <<>>
  /\ listen_i = 1
  /\ toServer = [c \in Channels |-> <<>>]
  /\ toClient = [c \in Channels |-> <<>>]
  /\ cl_pc = [c \in Channels |-> IF c \in sockets_in THEN "subscribe" ELSE "absent"]
  /\ cl_symbols \in [Channels -> ClientSymbolLists \cup {<<>>}]
  /\ \A c \in Channels : cl_symbols[c] = <<>> <=> c \notin sockets_in
  /\ request_id = [c \in Channels |-> 0]
  /\ status_id = [c \in Channels |-> None]
  /\ request_to_stock = [c \in Channels |-> <<>>]
  /\ cached_results = [c \in Channels |-> <<>>]
  /\ new_bars = [c \in Channels |-> <<>>]
  /\ assigned = [c \in Channels |-> <<>>]
  /\ sentLog = <<>>
  /\ tick = 0
  /\ finSince = {}
  /\ loaded = [s \in SymbolSet |-> <<>>]
  /\ GatewayIdle
  /\ StockInit
  /\ Enrolled
  /\ SideIdle

Server == listen \/ start \/ sendBarsCollect \/ sendLiveBars \/ sendBarsPop \/ finish

Client(c) == goLiveSubscribe(c) \/ goLiveFinalise(c) \/ Controller_listen(c)

Next ==
  \/ listen
  \/ start
  \/ sendBarsCollect
  \/ sendLiveBars
  \/ sendBarsPop
  \/ finish
  \/ \E c \in Channels : goLiveSubscribe(c)
  \/ \E c \in Channels : goLiveFinalise(c)
  \/ \E c \in Channels : Controller_listen(c)

Spec == Init /\ [][Next]_vars

SpecFair == Spec /\ WF_vars(Server) /\ \A c \in Channels : WF_vars(Client(c))

\* --------------------------------------------------------------- SpecGateway
\* One Gateway (client 1) making send and request calls while its peer puts
\* arbitrary messages on the inbound channel.
MaxRequests == 2
MaxPeerMsgs == 2

PeerTypes == {"Stock Response", "Fatal Error"}

\* Gateway.send called on its own (subscribeToMarketData): the outbound poll
\* succeeds or fails
Gw_send ==
  /\ g_pc = "idle"
  /\ request_id[1] < MaxRequests
  /\ \E pollOutput \in BOOLEAN : Gateway_send(1, "Request Live Data", "A", pollOutput)
  /\ UNCHANGED <<serverVars, toClient, cl_pc, cl_symbols, status_id, request_to_stock,
                 cached_results, new_bars, histVars, gwVars, stockVars, enrollVars, sideVars>>

\* Gateway.finalise called on its own
Gw_finalise ==
  /\ g_pc = "idle"
  /\ request_id[1] < MaxRequests
  /\ \E pollOutput \in BOOLEAN : Gateway_finalise(1, pollOutput)
  /\ UNCHANGED <<serverVars, toClient, cl_pc, cl_symbols, request_to_stock,
                 cached_results, new_bars, histVars, gwVars, stockVars, enrollVars, sideVars>>

\* The outcome of a call: kind is how the call ended for its caller, receive
\* how the _receive inside it ended, call the number of the send that carried
\* the request (0: none), result the message handed back.
Outcome(kind, receive, call) ==
  [kind |-> kind, receive |-> receive, call |-> call, result |-> NoOutcome.result]

\* Gateway.request, lines 194-196 and 155-157: send, then _receive's look into
\* the cache.  A hit returns the cached list, and request's result['Type']
\* raises TypeError on it.
Gateway_request(type, symbol) ==
  /\ g_pc = "idle"
  /\ \E pollOutput \in BOOLEAN : Gateway_send(1, type, symbol, pollOutput)
  /\ IF CacheHit(cached_results[1], {request_id[1]})
     THEN /\ g_out' = Outcome("TypeError", "list", Len(assigned'[1]))
          /\ UNCHANGED <<g_pc, g_awaited>>
     ELSE /\ g_pc' = "waiting"
          /\ g_awaited' = request_id[1]
          /\ g_out' = Outcome("pending", "pending", Len(assigned'[1]))
  /\ UNCHANGED <<serverVars, toClient, cl_pc, cl_symbols, status_id, request_to_stock,
                 cached_results, new_bars, histVars, stockVars, enrollVars, sideVars>>

\* Gateway.getStock
Gw_request ==
  /\ request_id[1] < MaxRequests
  /\ Gateway_request("Request Stock", Symbols[1])

\* Gateway.listen, line 256: _receive with ignore_timeout=True on the ids of
\* the subscriptions and the status id
Gw_listen ==
  /\ g_pc = "idle"
  /\ IF CacheHit(cached_results[1], Awaited(1))
     THEN /\ g_out' = Outcome("list", "list", 0)
          /\ UNCHANGED <<g_pc, g_awaited>>
     ELSE /\ g_pc' = "listening"
          /\ g_out' = Outcome("pending", "pending", 0)
          /\ UNCHANGED g_awaited
  /\ UNCHANGED <<serverVars, chanVars, clientVars, histVars, stockVars, enrollVars, sideVars>>

\* the ids the _receive in progress was called with, and its ignore_timeout
ReceiveIds == IF g_pc = "listening" THEN Awaited(1) ELSE {g_awaited}
IgnoreTimeout == g_pc = "listening"

\* mutant: every matched message is handed back to the caller
RequestOutcome_Returned(result) == "response"

\* how request ends on the message _receive returned (lines 200-202)
RequestOutcome(result) == IF result.Type = "Fatal Error" THEN "Fatal Error" ELSE "response"

\* Gateway._receive, lines 160-178: the poll succeeds (or is skipped) and one
\* message is read; it is returned when it carries an awaited id, else cached
Gw_receive ==
  /\ g_pc \in {"waiting", "listening"}
  /\ toClient[1] # <<>>
  /\ LET result == Head(toClient[1]) IN
     /\ toClient' = [toClient EXCEPT ![1] = Tail(@)]
     /\ IF Matches(result, ReceiveIds)
        THEN /\ g_pc' = "idle"
             /\ g_awaited' = None
             /\ g_out' = [g_out EXCEPT
                            !.kind = IF IgnoreTimeout THEN "message" ELSE RequestOutcome(result),
                            !.receive = "message", !.result = result]
             /\ UNCHANGED cached_results
        ELSE /\ cached_results' = [cached_results EXCEPT ![1] = Cache(@, result)]
             /\ UNCHANGED gwVars
  /\ UNCHANGED <<serverVars, toServer, cl_pc, cl_symbols, request_id, status_id,
                 request_to_stock, new_bars, assigned, histVars, stockVars, enrollVars, sideVars>>

\* mutant: the poll is made whatever ignore_timeout says
TimesOut_Always(ignore_timeout, pollInput) == ~pollInput

\* Gateway._receive, lines 162 and 179-182: the branch that raises
TimesOut(ignore_timeout, pollInput) == ~(ignore_timeout \/ pollInput)

\* Gateway._receive raises the timeout; inside request, lines 197-199, the
\* RuntimeError is caught and request returns False
Gw_timeout ==
  /\ g_pc \in {"waiting", "listening"}
  /\ TimesOut(IgnoreTimeout, toClient[1] # <<>>)
  /\ g_pc' = "idle"
  /\ g_awaited' = None
  /\ g_out' = [g_out EXCEPT !.kind = IF IgnoreTimeout THEN "Timeout" ELSE "False",
                            !.receive = "Timeout"]
  /\ UNCHANGED <<serverVars, chanVars, clientVars, histVars, stockVars, enrollVars, sideVars>>

\* the peer sends any message, with any request id
Peer_send ==
  /\ Len(sentLog) < MaxPeerMsgs
  /\ \E id \in 0..(MaxRequests - 1), type \in PeerTypes :
       LET m == Msg(type, id, "", NoBar) IN
       /\ toClient' = send(toClient, 1, m)
       /\ sentLog' = Logged(sentLog, 1, 0, <<m>>)
  /\ UNCHANGED <<serverVars, toServer, clientVars, tick, finSince, loaded, gwVars, stockVars, enrollVars, sideVars>>

InitChannels(enrolled) ==
  /\ pc = "setup"
  /\ sockets_in = enrolled
  /\ ready = <<>>
  /\ do_listen = TRUE
  /\ do_continue = TRUE
  /\ bars = <<>>
  /\ symbols_to_requests = <<>>
  /\ connection_bars = <<>>
  /\ listen_i = 1
  /\ toServer = [c \in Channels |-> <<>>]
  /\ toClient = [c \in Channels |-> <<>>]
  /\ cl_pc = [c \in Channels |-> IF c \in enrolled THEN "setup" ELSE "absent"]
  /\ cl_symbols = [c \in Channels |-> <<>>]
  /\ request_id = [c \in Channels |-> 0]
  /\ status_id = [c \in Channels |-> None]
  /\ request_to_stock = [c \in Channels |-> <<>>]
  /\ cached_results = [c \in Channels |-> <<>>]
  /\ new_bars = [c \in Channels |-> <<>>]
  /\ assigned = [c \in Channels |-> <<>>]
  /\ sentLog = <<>>
  /\ tick = 0
  /\ finSince = {}
  /\ loaded = [s \in SymbolSet |-> <<>>]
  /\ GatewayIdle
  /\ StockInit

InitSession(enrolled) == InitChannels(enrolled) /\ Enrolled /\ SideIdle

InitClient == InitSession({1})

NextGateway ==
  \/ Gw_send
  \/ Gw_finalise
  \/ Gw_request
  \/ Gw_listen
  \/ Gw_receive
  \/ Gw_timeout
  \/ Peer_send

SpecGateway == InitClient /\ [][NextGateway]_vars

\* ----------------------------------------------------------------- SpecSetup
\* The setup phase of a session: the server's listen loop of start() serving
\* the requests two enrolled clients make through their Gateways; client 1's
\* calls are followed to their end.
RecognisedTypes == {"IsReady", "Request Accounts", "Request Stock",
                    "Request Live Data", "Finalise"}
RequestTypes == {"Request Stock", "Request Historical Data", "Make Order"}

\* getStock, getHistory, or a request of a type the server does not know
Setup_request ==
  /\ request_id[1] < MaxRequests
  /\ \E type \in RequestTypes : Gateway_request(type, Symbols[1])

\* a message sent by the other client
Setup_send ==
  /\ request_id[2] < MaxRequests
  /\ \E type \in {"Request Live Data", "Request Historical Data", "Make Order"} :
       Gateway_send(2, type, Symbols[2], TRUE)
  /\ UNCHANGED <<serverVars, toClient, cl_pc, cl_symbols, status_id, request_to_stock,
                 cached_results, new_bars, histVars, gwVars, stockVars, enrollVars, sideVars>>

NextSetup ==
  \/ listen
  \/ Setup_request
  \/ Setup_send
  \/ Gw_finalise
  \/ Gw_receive
  \/ Gw_timeout

InitSetup == InitSession(Channels)

SpecSetup == InitSetup /\ [][NextSetup]_vars

\* ----------------------------------------------------------------- SpecStock
\* One Stock of a Controller receiving bars: for every bar Controller.listen
\* calls addLivePriceBar, which processes the bar, and then processNewBar again.
MaxStockBars == 2
MaxTrades == 2

DecisionsNow == IF Len(trades) < MaxTrades THEN Decisions ELSE {0}

SetStock(S) ==
  /\ trades' = S.trades
  /\ open_orders' = S.open_orders
  /\ close_orders' = S.close_orders
  /\ unique_id' = S.unique_id

\* Controller.listen, line 176: Stock.addLivePriceBar
Stock_addLivePriceBar ==
  /\ st_pc = "idle"
  /\ bar_no < MaxStockBars
  /\ \E step \in BarSteps, open \in Prices, close \in Prices, decision \in DecisionsNow :
       LET time == (IF current_time = None THEN 0 ELSE current_time) + step
           price_bar == [time |-> time, open |-> open, close |-> close]
       IN /\ previous_time' = current_time
          /\ current_bar' = price_bar
          /\ current_time' = price_bar.time
          /\ bar_no' = bar_no + 1
          /\ barOpens' = Append(barOpens, open)
          /\ SetStock(processNewBar(TheStock, price_bar, time, decision, bar_no + 1))
  /\ st_pc' = "added"
  /\ UNCHANGED <<serverVars, chanVars, clientVars, histVars, gwVars, enrollVars, sideVars, last_fill>>

\* mutant: processNewBar is run on a stock whatever went before
InNewBars_Always(stpc) == TRUE

\* Controller.listen, lines 175-178: processNewBar is run for the keys of
\* new_bars, each of which has just gone through addLivePriceBar
InNewBars(stpc) == stpc = "added"

\* Controller.listen, line 179: Stock.processNewBar on the same bar
Stock_processNewBar ==
  /\ InNewBars(st_pc)
  /\ \E decision \in DecisionsNow :
       SetStock(processNewBar(TheStock, current_bar, current_time, decision, bar_no))
  /\ st_pc' = "idle"
  /\ UNCHANGED <<serverVars, chanVars, clientVars, histVars, gwVars, enrollVars, sideVars,
                 current_bar, current_time, previous_time, bar_no, barOpens, last_fill>>

NextStock ==
  \/ Stock_addLivePriceBar
  \/ Stock_processNewBar

SpecStock == InitClient /\ [][NextStock]_vars

\* ---------------------------------------------------------------- SpecOrders
\* SpecStock, with setOrderFilled also called from outside the stock (a fill
\* reported through the gateway), for the id issued last or one not issued yet.
MaxFills == 1

Pending(S, order_id) == HasKey(S.open_orders, order_id) \/ HasKey(S.close_orders, order_id)

Stock_setOrderFilled ==
  /\ st_pc = "idle"
  /\ bar_no >= 1
  /\ last_fill.calls < MaxFills
  /\ \E order_id \in {unique_id, unique_id + 1}, averagePrice \in Prices :
       /\ SetStock(setOrderFilled(TheStock, order_id, averagePrice, bar_no))
       /\ last_fill' = [order_id |-> order_id, averagePrice |-> averagePrice,
                        pending |-> Pending(TheStock, order_id),
                        calls |-> last_fill.calls + 1]
  /\ UNCHANGED <<serverVars, chanVars, clientVars, histVars, gwVars, enrollVars, sideVars, st_pc,
                 current_bar, current_time, previous_time, bar_no, barOpens>>

NextOrders ==
  \/ Stock_addLivePriceBar
  \/ Stock_processNewBar
  \/ Stock_setOrderFilled

SpecOrders == InitClient /\ [][NextOrders]_vars

\* ---------------------------------------------------------------- SpecEnroll
\* BacktestServer.listenForConnectionRequests: clients send their handshake to
\* the rendezvous socket, one more than expected at most; other processes may
\* hold none, all but the last, or all of the ports the server probes.
PortsProbed == 500
InBase == 103141
OutBase == 104141

PortsInUse == {{}, 0..(PortsProbed - 2), 0..(PortsProbed - 1)}

\* mutant: the first port of the range is taken without a bind failing
Probe_First(used) == 0

\* "for i in range(500): try: bind(base + i)": the offset of the port bound,
\* None when every bind failed
Probe(used) ==
  LET free == (0..(PortsProbed - 1)) \ used IN
  IF free = {} THEN None ELSE CHOOSE i \in free : \A k \in free : i <= k

\* mutant: every channel gets the first key
NewKey_First(ins, outs) == 1

\* lines 305-310: one more than the greatest key of sockets_in and sockets_out
NewKey(ins, outs) ==
  LET keys == ins \cup outs \cup {0} IN
  (CHOOSE k \in keys : \A j \in keys : j <= k) + 1

\* mutant: the loop runs once more
RangeDone_OneMore(i, n) == i >= n + 1

\* "for _ in range(self.num_clients)" has run i times
RangeDone(i, n) == i >= n

\* initial_connection_socket.send(...) is handed a str (line 341-345), not
\* bytes as send_string (line 357) hands over: it is sent where str is a byte
\* string, and refused with TypeError otherwise
ErrorSend == {"sent", "TypeError"}

NoPorts(answer) == [reply |-> answer, key |-> None, In |-> None, Out |-> None]

\* a client's Gateway.connect sends {"Type": "Connect"}
Enroll_connect ==
  /\ hs_sent < num_clients + 1
  /\ hs_sent' = hs_sent + 1
  /\ hs_waiting' = hs_waiting + 1
  /\ UNCHANGED <<serverVars, chanVars, clientVars, histVars, gwVars, stockVars, sideVars,
                 num_clients, sockets_out, pollers_in, pollers_out, en_pc, en_i,
                 ports_in, ports_out, hs_log>>

\* line 302: the poll ends without a handshake; the iteration is spent
Enroll_timeout ==
  /\ en_pc = "enrolling"
  /\ hs_waiting = 0
  /\ en_i' = en_i + 1
  /\ en_pc' = IF RangeDone(en_i + 1, num_clients) THEN "returned" ELSE "enrolling"
  /\ UNCHANGED <<serverVars, chanVars, clientVars, histVars, gwVars, stockVars, sideVars,
                 num_clients, sockets_out, pollers_in, pollers_out,
                 ports_in, ports_out, hs_waiting, hs_sent, hs_log>>

\* lines 303-362: a handshake is received and both ports are bound
Enroll_grant ==
  /\ en_pc = "enrolling"
  /\ hs_waiting > 0
  /\ Probe(ports_in) # None
  /\ Probe(ports_out) # None
  /\ LET key == NewKey(sockets_in, sockets_out)
         inSocket == InBase + Probe(ports_in)
         outSocket == OutBase + Probe(ports_out)
     IN /\ ports_in' = ports_in \cup {Probe(ports_in)}
        /\ ports_out' = ports_out \cup {Probe(ports_out)}
        /\ sockets_in' = sockets_in \cup {key}
        /\ sockets_out' = sockets_out \cup {key}
        /\ pollers_in' = pollers_in \cup {key}
        /\ pollers_out' = pollers_out \cup {key}
        /\ hs_log' = Append(hs_log, [reply |-> "Ports", key |-> key,
                                     In |-> inSocket, Out |-> outSocket])
  /\ hs_waiting' = hs_waiting - 1
  /\ en_i' = en_i + 1
  /\ en_pc' = IF RangeDone(en_i + 1, num_clients) THEN "returned" ELSE "enrolling"
  /\ UNCHANGED <<ready, do_listen, do_continue, bars, symbols_to_requests, connection_bars,
                 listen_i, pc, chanVars, clientVars, histVars, gwVars, stockVars, sideVars,
                 num_clients, hs_sent>>

\* lines 303-346: a handshake is received and one direction has no port left:
\* the error is reported and the function returns
Enroll_fail ==
  /\ en_pc = "enrolling"
  /\ hs_waiting > 0
  /\ Probe(ports_in) = None \/ Probe(ports_out) = None
  /\ ports_in' = IF Probe(ports_in) = None THEN ports_in ELSE ports_in \cup {Probe(ports_in)}
  /\ \E outcome \in ErrorSend :
       /\ hs_log' = Append(hs_log, NoPorts(IF outcome = "sent" THEN "Error" ELSE "none"))
       /\ en_pc' = IF outcome = "sent" THEN "returned" ELSE "crashed"
  /\ hs_waiting' = hs_waiting - 1
  /\ en_i' = en_i + 1
  /\ UNCHANGED <<serverVars, chanVars, clientVars, histVars, gwVars, stockVars, sideVars,
                 num_clients, sockets_out, pollers_in, pollers_out, ports_out, hs_sent>>

InitEnroll ==
  /\ InitChannels({})
  /\ num_clients \in 1..NumClients
  /\ sockets_out = {}
  /\ pollers_in = {}
  /\ pollers_out = {}
  /\ en_pc = "enrolling"
  /\ en_i = 0
  /\ ports_in \in PortsInUse
  /\ ports_out \in PortsInUse
  /\ hs_waiting = 0
  /\ hs_sent = 0
  /\ hs_log = <<>>
  /\ SideIdle

NextEnroll ==
  \/ Enroll_connect
  \/ Enroll_timeout
  \/ Enroll_grant
  \/ Enroll_fail

SpecEnroll == InitEnroll /\ [][NextEnroll]_vars

\* ------------------------------------------------------------------ SpecTick
\* The session of one client with one stock, the stock included: the End of
\* Live Bars branch of Controller.listen runs addLivePriceBar and
\* processNewBar on the stored bar before it finalises.

MaxTickTrades == 1

\* the decisions a strategy can take in this session
TickDecisions(S) == IF Len(S.trades) < MaxTickTrades THEN Decisions ELSE {0}

\* what gateway.listen() hands Controller.listen next
ListenType(c) ==
  IF CacheHit(cached_results[c], Awaited(c)) THEN "(list)"
  ELSE IF toClient[c] = <<>> THEN "(none)"
  ELSE IF Matches(Head(toClient[c]), Awaited(c)) THEN Head(toClient[c]).Type
  ELSE "(cached)"

\* mutant: each bar is passed to its stock as it arrives
BulkProcessed_LiveBar(type) == type = "Live Bar"

\* Controller.listen, line 173: the branch that passes the stored bars on
BulkProcessed(type) == type = "End of Live Bars"

\* Controller.listen, lines 175-179, for the client's one stock: the stored
\* bar goes through addLivePriceBar, which runs processNewBar, and then
\* through processNewBar again
Controller_processBars(c) ==
  LET symbol == Symbols[c] IN
  IF BulkProcessed(ListenType(c)) /\ HasKey(new_bars'[c], symbol)
  THEN \E open \in Prices, close \in Prices, d1 \in TickDecisions(TheStock) :
         LET time == Get(new_bars'[c], symbol)
             price_bar == [time |-> time, open |-> open, close |-> close]
             S1 == processNewBar(TheStock, price_bar, time, d1, bar_no + 1)
         IN \E d2 \in TickDecisions(S1) :
              /\ previous_time' = current_time
              /\ current_bar' = price_bar
              /\ current_time' = time
              /\ bar_no' = bar_no + 1
              /\ barOpens' = Append(barOpens, open)
              /\ SetStock(processNewBar(S1, price_bar, time, d2, bar_no + 1))
              /\ UNCHANGED <<st_pc, last_fill>>
  ELSE UNCHANGED stockVars

Controller_listenStock ==
  /\ cl_pc[1] = "listen"
  /\ Controller_receive(1)
  /\ Controller_processBars(1)

InitTick ==
  /\ sockets_in = {1}
  /\ Init
  /\ cl_symbols[1] = <<Symbols[1]>>

NextTick ==
  \/ listen
  \/ start
  \/ sendBarsCollect
  \/ sendLiveBars
  \/ sendBarsPop
  \/ finish
  \/ \E c \in Channels : goLiveSubscribe(c)
  \/ \E c \in Channels : goLiveFinalise(c)
  \/ Controller_listenStock

SpecTick == InitTick /\ [][NextTick]_vars

\* --------------------------------------------------------------- SpecMonitor
\* One call of TimeLimitTradeMonitor.notify_single and one of
\* MultiTradeMonitor.notify_single, on a trade opened at open_time and a
\* current bar not earlier than that.  Times and the limit are minutes; the
\* children of the composite are given by what their notify_single returns
\* for the trade and bar.
MaxMonTime == 2
MaxChildren == 2

\* Python's True, False and None as returned values
PyBool(b) == IF b THEN "True" ELSE "False"

\* TimeLimitTradeMonitor.notify_single
TimeLimit_notify_single(open_time, timedelta, bar_time) ==
  IF open_time + timedelta >= bar_time THEN "False" ELSE "True"

\* MultiTradeMonitor.notify_single: the return of line 49 is inside the loop,
\* and a loop that does not run falls off the function's end
Multi_notify_single(children) ==
  IF children = <<>> THEN "None"
  ELSE IF ~Head(children) THEN "False"
  ELSE "True"

ChildLists == UNION {[1..n -> BOOLEAN] : n \in 0..MaxChildren}

MonInputs ==
  {[NoMon EXCEPT !.open_time = x[1], !.time_limit = x[2], !.bar_time = x[3],
                 !.children = x[4]] :
     x \in {y \in (0..MaxMonTime) \X (0..MaxMonTime) \X (0..(2 * MaxMonTime)) \X ChildLists :
              y[3] >= y[1]}}

Mon_timeLimit ==
  /\ mon.single = "none"
  /\ mon' = [mon EXCEPT !.single = TimeLimit_notify_single(mon.open_time, mon.time_limit,
                                                           mon.bar_time)]
  /\ UNCHANGED <<serverVars, chanVars, clientVars, histVars, gwVars, stockVars, enrollVars,
                 cn_pc, attempts, cn_sent, cn_result>>

Mon_multi ==
  /\ mon.multi = "none"
  /\ mon' = [mon EXCEPT !.multi = Multi_notify_single(mon.children)]
  /\ UNCHANGED <<serverVars, chanVars, clientVars, histVars, gwVars, stockVars, enrollVars,
                 cn_pc, attempts, cn_sent, cn_result>>

InitMonitor ==
  /\ mon \in MonInputs
  /\ cn_pc = "idle"
  /\ attempts = 0
  /\ cn_sent = 0
  /\ cn_result = <<>>
  /\ InitChannels({1})
  /\ Enrolled

NextMonitor ==
  \/ Mon_timeLimit
  \/ Mon_multi

SpecMonitor == InitMonitor /\ [][NextMonitor]_vars

\* --------------------------------------------------------------- SpecConnect
\* One call of Gateway.connect.  Each poll of the handshake socket either
\* reports it writable or times out; a handshake sent is answered with a
\* port pair or with an Error (a handshake that is never answered leaves the
\* call inside recv, which has no timeout).
GiveUpAfter == 5

\* connect, lines 106-121: quit() or sleep and go round the loop again
AfterAttempt(a) == IF a > GiveUpAfter THEN "quit" ELSE "poll"

\* connect, lines 87-91: count the attempt, poll, send the handshake
Connect_poll ==
  /\ cn_pc = "poll"
  /\ attempts' = attempts + 1
  /\ \E pollout \in BOOLEAN :
       IF pollout
       THEN /\ cn_sent' = cn_sent + 1
            /\ cn_pc' = "recv"
            /\ UNCHANGED cn_result
       ELSE /\ cn_result' = Append(cn_result, "timeout")
            /\ cn_pc' = AfterAttempt(attempts + 1)
            /\ UNCHANGED cn_sent
  /\ UNCHANGED <<serverVars, chanVars, clientVars, histVars, gwVars, stockVars, enrollVars,
                 mon>>

\* connect, lines 93-105: the reply is read; without "Error" it is returned
Connect_recv ==
  /\ cn_pc = "recv"
  /\ \E answer \in {"Error", "Ports"} :
       /\ cn_result' = Append(cn_result, answer)
       /\ cn_pc' = IF answer = "Ports" THEN "returned" ELSE AfterAttempt(attempts)
  /\ UNCHANGED <<serverVars, chanVars, clientVars, histVars, gwVars, stockVars, enrollVars,
                 attempts, cn_sent, mon>>

InitConnect ==
  /\ cn_pc = "poll"
  /\ attempts = 0
  /\ cn_sent = 0
  /\ cn_result = <<>>
  /\ mon = NoMon
  /\ InitChannels({})
  /\ Enrolled

NextConnect ==
  \/ Connect_poll
  \/ Connect_recv

SpecConnect == InitConnect /\ [][NextConnect]_vars

\* ---------------------------------------------------------------- SpecTrades
\* SpecStock, with a strategy that also acts between the passes: it calls
\* Stock.startOrder, Trade.close and Trade.runSafetyFeatures on its own.
MaxPendingCloses == 2

\* a strategy calls Stock.startOrder outside processNewBar
Stock_startOrder ==
  /\ st_pc = "idle"
  /\ bar_no >= 1
  /\ Len(trades) < MaxTrades
  /\ \E buyOrSell \in Decisions \ {0} :
       SetStock(startOrder(TheStock, current_bar, current_time, buyOrSell, bar_no))
  /\ UNCHANGED <<serverVars, chanVars, clientVars, histVars, gwVars, enrollVars, sideVars,
                 st_pc, current_bar, current_time, previous_time, bar_no, barOpens, last_fill>>

\* a strategy calls Trade.close on one of the stock's trades
Trade_closeCall ==
  /\ bar_no >= 1
  /\ Len(close_orders) < MaxPendingCloses
  /\ \E t \in 1..Len(trades) : SetStock(Trade_close(TheStock, t, current_time, bar_no))
  /\ UNCHANGED <<serverVars, chanVars, clientVars, histVars, gwVars, enrollVars, sideVars,
                 st_pc, current_bar, current_time, previous_time, bar_no, barOpens, last_fill>>

\* a strategy calls Trade.runSafetyFeatures on one of the stock's trades
Trade_safetyCall ==
  /\ bar_no >= 1
  /\ Len(close_orders) < MaxPendingCloses
  /\ \E t \in 1..Len(trades) :
       SetStock(Trade_runSafetyFeatures(TheStock, t, current_bar, current_time, bar_no))
  /\ UNCHANGED <<serverVars, chanVars, clientVars, histVars, gwVars, enrollVars, sideVars,
                 st_pc, current_bar, current_time, previous_time, bar_no, barOpens, last_fill>>

NextTrades ==
  \/ Stock_addLivePriceBar
  \/ Stock_processNewBar
  \/ Stock_startOrder
  \/ Trade_safetyCall
  \/ Trade_closeCall

SpecTrades == InitClient /\ [][NextTrades]_vars

\* ------------------------------------------------------------------- claims
TickTypes == {"Prepare for Live Bars", "Live Bar", "End of Live Bars"}
LiveBarIdx == {i \in 1..Len(sentLog) : sentLog[i].msg.Type = "Live Bar"}

\* the step sends a message of a tick after the first
TickMessageSent ==
  /\ Len(sentLog') > Len(sentLog)
  /\ sentLog'[Len(sentLog) + 1].msg.Type \in TickTypes
  /\ sentLog'[Len(sentLog) + 1].tick >= 2

\* C1 (barrier): a message of tick K+1 is sent only when, since tick K's
\* batches were sent, a Finalise has been received from every enrolled channel.
C1_Barrier == [][TickMessageSent => finSince = sockets_in]_vars

C1_Witness ==
  /\ Cardinality(sockets_in) = 2
  /\ \E i \in LiveBarIdx : sentLog[i].tick = 2 /\ sentLog[i].conn = 2
  /\ \E i \in LiveBarIdx : sentLog[i].tick = 1 /\ sentLog[i].conn = 1

\* C2 (global ordering): the timestamps of the Live Bars sent are non-decreasing
\* in the order they are sent, over the whole session and over all channels.
C2_GlobalOrdering ==
  \A i, j \in LiveBarIdx :
    i < j => sentLog[i].msg.Bar.Time <= sentLog[j].msg.Bar.Time

C2_Witness ==
  \E i, j \in LiveBarIdx :
    /\ sentLog[i].tick < sentLog[j].tick
    /\ sentLog[i].msg.Symbol # sentLog[j].msg.Symbol
    /\ sentLog[i].msg.Bar.Time < sentLog[j].msg.Bar.Time
    /\ pc = "done"

\* the Live Bars of symbol sym at time t sent to subscription (c, req)
Deliveries(c, req, sym, t) ==
  {i \in LiveBarIdx : /\ sentLog[i].conn = c
                      /\ sentLog[i].msg.RequestID = req
                      /\ sentLog[i].msg.Symbol = sym
                      /\ sentLog[i].msg.Bar.Time = t}

\* C3 (per-symbol ordering): when a bar of X is sent to a subscriber, every
\* earlier-timestamped bar of X's loaded sequence was sent to it before.
C3_PerSymbolOrdering ==
  \A j \in LiveBarIdx :
    LET e == sentLog[j] IN
    \A k \in 1..Len(loaded[e.msg.Symbol]) :
      loaded[e.msg.Symbol][k] < e.msg.Bar.Time =>
        \E i \in Deliveries(e.conn, e.msg.RequestID, e.msg.Symbol, loaded[e.msg.Symbol][k]) :
          i < j

AllSubscriptions == Range(Subscriptions(symbols_to_requests))

\* C4 (exactly-once delivery): no bar is sent twice to a subscription, and when
\* Server Exit has been sent every loaded bar was sent once to every
\* subscription of its symbol, with the subscription's request id.
C4_ExactlyOnce ==
  \A sub \in AllSubscriptions :
    \A k \in 1..Len(loaded[sub[1]]) :
      LET n == Cardinality(Deliveries(sub[2], sub[3], sub[1], loaded[sub[1]][k])) IN
      /\ n <= 1
      /\ pc = "done" => n = 1

\* the <<symbol, timestamp>> pairs of the Live Bars of tick k
TickBars(k) == {<<sentLog[i].msg.Symbol, sentLog[i].msg.Bar.Time>> :
                  i \in {j \in LiveBarIdx : sentLog[j].tick = k}}

\* Scenario 1, timestamps 0..3 standing for 09:00..09:03
Scenario1 == loaded = [s \in SymbolSet |-> IF s = "A" THEN <<0, 1, 2>> ELSE <<0, 3>>]

\* C5 (scenario 1): A at 09:00/09:01/09:02 and B at 09:00/09:03 give four ticks,
\* {A,B}@09:00, {A}@09:01, {A}@09:02, {B}@09:03, and then Server Exit.
C5_Scenario1 ==
  (Scenario1 /\ pc = "done") =>
    /\ tick = 4
    /\ TickBars(1) = {<<"A", 0>>, <<"B", 0>>}
    /\ TickBars(2) = {<<"A", 1>>}
    /\ TickBars(3) = {<<"A", 2>>}
    /\ TickBars(4) = {<<"B", 3>>}

ServerExitSent(c) ==
  \E i \in 1..Len(sentLog) : sentLog[i].conn = c /\ sentLog[i].msg.Type = "Server Exit"

\* C6 (session termination): with reliable delivery and clients that answer
\* every End of Live Bars with a Finalise, the server eventually reaches finish
\* and sends Server Exit to every enrolled channel.
C6_Terminates == <>(pc = "done" /\ \A c \in sockets_in : ServerExitSent(c))

\* C9 (round trip): a response returned by Gateway.request carries the
\* RequestID that send assigned to the request.
C9_RoundTrip ==
  g_out.kind = "response" => g_out.result.RequestID = assigned[1][g_out.call]

C9_Witness ==
  /\ g_out.kind = "response"
  /\ g_out.call = 2
  /\ cached_results[1] # <<>>

\* C10 (fresh request ids): the ids assigned by successive Gateway.send calls
\* are strictly increasing, whether or not the message was transmitted.
C10_FreshRequestIDs ==
  \A c \in Channels :
    \A i, j \in 1..Len(assigned[c]) : i < j => assigned[c][i] < assigned[c][j]

C10_Witness ==
  /\ Len(assigned[1]) >= 2
  /\ toServer[1] = <<>>

\* the processing of the current bar has ended (both passes of Controller.listen)
BarProcessed == st_pc = "idle" /\ bar_no >= 1

\* C7 (fill delay for open orders): a trade created while bar N is processed
\* is still Opening when the processing of bar N ends, and its open order is
\* filled during the processing of bar N+1 at bar N+1's open price.
C7_OpenFillDelay ==
  \A t \in 1..Len(trades) :
    /\ (BarProcessed /\ trades[t].born = bar_no) =>
         (~trades[t].status /\ trades[t].open_price = None)
    /\ trades[t].opened # None =>
         /\ trades[t].opened = trades[t].born + 1
         /\ trades[t].open_price = barOpens[trades[t].born + 1]

\* C8 (fill delay for close orders): a close order issued in either pass over
\* bar N is still pending when the processing of bar N ends, and is filled
\* during the processing of bar N+1 at bar N+1's open price.
C8_CloseFillDelay ==
  \A t \in 1..Len(trades) :
    /\ (BarProcessed /\ trades[t].close_ordered = bar_no) =>
         (\E i \in 1..Len(close_orders) : close_orders[i][2] = t)
    /\ trades[t].closed # None =>
         /\ trades[t].closed = trades[t].close_ordered + 1
         /\ trades[t].close_price = barOpens[trades[t].close_ordered + 1]

\* C11 (timeout in receive): a _receive called without ignore_timeout ends
\* with the timeout error when its poll times out, whatever was cached for
\* other ids; a _receive called with ignore_timeout=True never ends with it.
C11_ReceiveTimeout ==
  [][/\ (g_pc = "waiting" /\ toClient[1] = <<>> /\ g_pc' = "idle") =>
          g_out'.receive = "Timeout"
     /\ (g_out'.receive = "Timeout" /\ g_out.receive # "Timeout") =>
          (g_pc = "waiting" /\ toClient[1] = <<>>)
     /\ g_pc = "listening" => g_out'.receive # "Timeout"]_vars

C11_Witness ==
  /\ g_out.receive = "Timeout"
  /\ cached_results[1] # <<>>
  /\ status_id[1] # None

\* C12 (timeout propagation): a request whose _receive timed out ends with
\* the timeout error for its caller.
C12_TimeoutPropagated ==
  (g_out.call > 0 /\ g_out.receive = "Timeout") => g_out.kind = "Timeout"

\* C13 (fatal error response): when the message matched to a request has Type
\* "Fatal Error" the call ends with an error and hands back no response, the
\* request-id counter and the cache stay as they are, and the gateway is
\* ready for its next call.
C13_FatalError ==
  [][(g_pc = "waiting" /\ g_pc' = "idle" /\ g_out'.receive = "message"
        /\ g_out'.result.Type = "Fatal Error") =>
       /\ g_out'.kind = "Fatal Error"
       /\ request_id' = request_id
       /\ cached_results' = cached_results
       /\ g_awaited' = None]_vars

C13_Witness ==
  /\ g_out.kind = "response"
  /\ g_out.call = 2
  /\ \E i \in 1..Len(sentLog) :
       sentLog[i].msg.Type = "Fatal Error" /\ sentLog[i].msg.RequestID = assigned[1][1]
  /\ \A i \in 1..Len(sentLog) : sentLog[i].msg.RequestID # assigned[1][1] \/ i = 1

\* the server takes a message of the given types from channel c in this step
Parsed(c, types) ==
  /\ pc \in {"setup", "listen"}
  /\ listen_i = c
  /\ toServer[c] # <<>>
  /\ Head(toServer[c]).Type \in types
  /\ toServer'[c] = Tail(toServer[c])

\* the step sends exactly one message, of the given type, on channel c, with
\* the RequestID of the message taken from c
Answered(c, type) ==
  /\ \A d \in Channels \ {c} : toClient'[d] = toClient[d]
  /\ Len(toClient'[c]) = Len(toClient[c]) + 1
  /\ SubSeq(toClient'[c], 1, Len(toClient[c])) = toClient[c]
  /\ toClient'[c][Len(toClient'[c])].Type = type
  /\ toClient'[c][Len(toClient'[c])].RequestID = Head(toServer[c]).RequestID

AllTypes == RecognisedTypes \cup RequestTypes

C15_HistoricalData ==
  [][\A c \in Channels :
       Parsed(c, {"Request Historical Data"}) => Answered(c, "HistoricalBars")]_vars

\* C16 (unknown order id): setOrderFilled called with an id that is a key of
\* neither open_orders nor close_orders changes no trade and neither map, and
\* raises nothing.
C16_UnknownOrderId ==
  [][(last_fill'.calls = last_fill.calls + 1 /\ ~last_fill'.pending) =>
       /\ trades' = trades
       /\ open_orders' = open_orders
       /\ close_orders' = close_orders
       /\ st_pc' = "idle"]_vars

C16_Witness ==
  /\ last_fill.calls >= 1
  /\ ~last_fill.pending
  /\ st_pc = "idle"
  /\ \E t \in 1..Len(trades) : trades[t].status
  /\ \E t \in 1..Len(trades) : ~trades[t].status /\ trades[t].closed # None

\* the step receives a handshake
Handshake == Len(hs_log') = Len(hs_log) + 1

LastReply == hs_log[Len(hs_log)]

\* C17 (port exhaustion): a handshake for which no port of a direction can be
\* bound is answered with an Error payload and gets no channel.
C17_PortExhaustion ==
  [][(Handshake /\ (Probe(ports_in) = None \/ Probe(ports_out) = None)) =>
       /\ LastReply'.reply = "Error"
       /\ sockets_in' = sockets_in
       /\ sockets_out' = sockets_out
       /\ pollers_in' = pollers_in
       /\ pollers_out' = pollers_out]_vars

\* C18 (broker survives an allocation failure): after a handshake failed port
\* allocation with expected handshakes still to come, the enrollment loop goes
\* on.
C18_SurvivesFailure ==
  (hs_log # <<>> /\ LastReply.reply = "Error" /\ en_i < num_clients) => en_pc = "enrolling"

\* C19 (one-shot enrollment): at most num_clients handshakes are processed and
\* at most num_clients channels registered, exactly num_clients when every
\* one of them was granted, and none after the enrollment has returned.
C19_Counts ==
  /\ Len(hs_log) <= num_clients
  /\ Cardinality(sockets_in) <= num_clients
  /\ (Len(hs_log) = num_clients /\ \A i \in 1..Len(hs_log) : hs_log[i].reply = "Ports") =>
       (en_pc = "returned" /\ Cardinality(sockets_in) = num_clients)

C19_OneShot ==
  [][/\ C19_Counts'
     /\ en_pc # "enrolling" => (sockets_in' = sockets_in /\ hs_log' = hs_log)]_vars

C19_Witness ==
  /\ en_pc = "returned"
  /\ num_clients = NumClients
  /\ Cardinality(sockets_in) = num_clients
  /\ hs_waiting > 0

\* C20 (fresh channel keys): a granted handshake is registered under a key
\* greater than every key issued before, and the four registries always have
\* the same keys.
C20_FreshKeys ==
  [][/\ (Handshake /\ LastReply'.reply = "Ports") =>
          /\ \A k \in sockets_in \cup {hs_log[i].key : i \in 1..Len(hs_log)} :
               LastReply'.key > k
          /\ sockets_in' = sockets_in \cup {LastReply'.key}
     /\ sockets_out' = sockets_in'
     /\ pollers_in' = sockets_in'
     /\ pollers_out' = sockets_in']_vars

C20_Witness ==
  /\ Cardinality(sockets_in) = NumClients
  /\ \E i \in 1..Len(hs_log) :
       /\ hs_log[i].key = NumClients
       /\ hs_log[i].In = InBase + 1
       /\ hs_log[i].Out = OutBase + 1

\* the handshakes that were granted a channel
Granted == {i \in 1..Len(hs_log) : hs_log[i].reply = "Ports"}

InRange == InBase..(InBase + PortsProbed - 1)
OutRange == OutBase..(OutBase + PortsProbed - 1)

\* C21 (port allocation): the inbound ports replied to granted handshakes are
\* pairwise distinct and within the inbound range, likewise the outbound
\* ports, the two ranges are disjoint, and the pair replied is the pair bound
\* in that step.
C21_PortAllocation ==
  [][/\ \A i, j \in Granted' :
          i # j => (hs_log'[i].In # hs_log'[j].In /\ hs_log'[i].Out # hs_log'[j].Out)
     /\ \A i \in Granted' : hs_log'[i].In \in InRange /\ hs_log'[i].Out \in OutRange
     /\ InRange \cap OutRange = {}
     /\ (Handshake /\ LastReply'.reply = "Ports") =>
          /\ ports_in' \ ports_in = {LastReply'.In - InBase}
          /\ ports_out' \ ports_out = {LastReply'.Out - OutBase}]_vars

C21_Witness ==
  /\ en_pc = "returned"
  /\ Cardinality(Granted) = 2
  /\ hs_log[1].In = InBase /\ hs_log[1].Out = OutBase
  /\ hs_log[2].In = InBase + 1 /\ hs_log[2].Out = OutBase + 1

\* the RequestIDs the server has received on channel c: the ids the client
\* attached to its messages, less those still in flight
ReceivedIDs(c) ==
  Range(assigned[c]) \ {toServer[c][i].RequestID : i \in 1..Len(toServer[c])}

TickLog(c, t) ==
  SelectSeq(sentLog, LAMBDA e : e.conn = c /\ e.tick = t /\ e.msg.Type \in TickTypes)

Framed(s) ==
  \/ s = <<>>
  \/ /\ Len(s) >= 3
     /\ s[1].msg.Type = "Prepare for Live Bars"
     /\ s[Len(s)].msg.Type = "End of Live Bars"
     /\ \A k \in 2..(Len(s) - 1) : s[k].msg.Type = "Live Bar"

\* C23 (tick framing): once a tick's batches have been sent, the messages of
\* that tick on a channel are either none, or one Prepare for Live Bars, then
\* Live Bar messages, then one End of Live Bars.
C23_TickFraming ==
  \A c \in Channels : \A t \in 1..tick : Framed(TickLog(c, t))

\* the timestamp the tick was built from: the least front timestamp
EarliestFront ==
  SeqMin(SetToSeq({bars[i][2][1].Time : i \in {k \in 1..Len(bars) : bars[k][2] # <<>>}}))

\* C24 (pop step): the step that ends a tick removes the front bar from
\* exactly the symbols whose front timestamp equalled earliest, a symbol
\* holding its last bar included, and leaves every other sequence unchanged.
C24_PopStep ==
  [][(pc = "sending" /\ pc' = "listen") =>
       \A i \in 1..Len(bars) :
         bars'[i] = <<bars[i][1],
                      IF bars[i][2] # <<>> /\ bars[i][2][1].Time = EarliestFront
                      THEN Tail(bars[i][2]) ELSE bars[i][2]>>]_vars

\* the bar, time and decision with which processNewBar can run next: on the
\* bar just added, or through addLivePriceBar on a new bar
PassInputs ==
  IF st_pc = "added"
  THEN {[bar |-> current_bar, time |-> current_time, decision |-> d, n |-> bar_no] :
          d \in DecisionsNow}
  ELSE IF bar_no < MaxStockBars
  THEN {[bar |-> [time |-> (IF current_time = None THEN 0 ELSE current_time) + x[1],
                  open |-> x[2], close |-> x[3]],
         time |-> (IF current_time = None THEN 0 ELSE current_time) + x[1],
         decision |-> x[4], n |-> bar_no + 1] :
          x \in BarSteps \X Prices \X Prices \X DecisionsNow}
  ELSE {}

\* every call of setOrderFilled those passes make
PassFillCalls ==
  UNION {LET S1 == makeDecision(TheStock, i.bar, i.time, i.decision, i.n)
         IN  FillCalls(S1, OrdersToFill(S1), i.bar.open, i.n) : i \in PassInputs}

\* C25 (resolving an open order): setOrderFilled on an id pending in
\* open_orders at price p sets that trade Open with open_price p, removes the
\* id from open_orders, and changes no other trade and no other pending order.
C25_OpenOrderResolved ==
  \A call \in PassFillCalls :
    HasKey(call.before.open_orders, call.order_id) =>
      LET t == Get(call.before.open_orders, call.order_id) IN
      /\ call.after.trades[t].status = TRUE
      /\ call.after.trades[t].open_price = call.averagePrice
      /\ call.after.open_orders = Del(call.before.open_orders, call.order_id)
      /\ ~HasKey(call.after.open_orders, call.order_id)
      /\ call.after.close_orders = call.before.close_orders
      /\ Len(call.after.trades) = Len(call.before.trades)
      /\ \A u \in 1..Len(call.before.trades) :
           u # t => call.after.trades[u] = call.before.trades[u]

\* the pass on the second bar opened trade 2 at that bar's open and left
\* trade 1, opened a bar earlier, as it was
C25_Witness ==
  /\ Len(trades) = 2
  /\ trades[2].opened = bar_no /\ trades[2].status /\ trades[2].open_price = current_bar.open
  /\ trades[1].opened < bar_no /\ trades[1].status /\ trades[1].open_price # trades[2].open_price
  /\ open_orders = <<>>

\* C26 (resolving a close order): setOrderFilled on an id pending in
\* close_orders at price p sets that trade Closed with close_price p, removes
\* the id from close_orders, and sets profit = (p - open_price) * shares * action.
C26_CloseOrderResolved ==
  \A call \in PassFillCalls :
    (/\ ~HasKey(call.before.open_orders, call.order_id)
     /\ HasKey(call.before.close_orders, call.order_id)) =>
      LET t == Get(call.before.close_orders, call.order_id)
          was == call.before.trades[t]
          now == call.after.trades[t]
      IN
      /\ now.status = FALSE
      /\ now.close_price = call.averagePrice
      /\ call.after.close_orders = Del(call.before.close_orders, call.order_id)
      /\ ~HasKey(call.after.close_orders, call.order_id)
      /\ was.action \in {1, -1}
      /\ now.profit = (call.averagePrice - was.open_price) * was.shares * was.action

\* a short trade was closed by the fill of its close order at a price other
\* than its open price
C26_Witness ==
  \E t \in 1..Len(trades) :
    /\ trades[t].closed = bar_no
    /\ trades[t].action = -1
    /\ trades[t].close_price = current_bar.open
    /\ trades[t].close_price # trades[t].open_price
    /\ trades[t].profit = (trades[t].open_price - trades[t].close_price) * trades[t].shares
    /\ close_orders = <<>>

\* C27 (closing an open trade): a trade for which a pass has issued a close
\* order is, from the end of that pass on, not among the stock's open trades
\* (getCurrentTrades).
C27_ClosingLeavesOpenSet ==
  \A t \in 1..Len(trades) :
    trades[t].close_ordered # None => t \notin Range(getCurrentTrades(TheStock))

\* how far trade t of stock S has come: 0 None, 1 Opening, 2 Open, 3 Closing,
\* 4 Closed
Stage(S, t) ==
  LET tr == S.trades[t] IN
  IF tr.close_price # None /\ ~tr.status THEN 4
  ELSE IF \E i \in 1..Len(S.close_orders) : S.close_orders[i][2] = t THEN 3
  ELSE IF tr.status THEN 2
  ELSE IF \E i \in 1..Len(S.open_orders) : S.open_orders[i][2] = t THEN 1
  ELSE 0

\* the fills of the passes that can run next find their trade in the stage
\* the order belongs to
FillsInOrder ==
  \A call \in PassFillCalls :
    /\ HasKey(call.before.open_orders, call.order_id) =>
         LET t == Get(call.before.open_orders, call.order_id) IN
         /\ Stage(call.before, t) = 1
         /\ call.before.trades[t].open_price = None
         /\ Stage(call.after, t) = 2
    /\ (/\ ~HasKey(call.before.open_orders, call.order_id)
        /\ HasKey(call.before.close_orders, call.order_id)) =>
         LET t == Get(call.before.close_orders, call.order_id) IN
         /\ Stage(call.before, t) = 3
         /\ call.before.trades[t].open_price # None
         /\ Stage(call.after, t) = 4

\* the close orders pending are for trades that were Open when the order was
\* issued, one order a trade
CloseOrdersForOpenTrades ==
  /\ \A i \in 1..Len(close_orders) :
       LET tr == trades[close_orders[i][2]] IN
       tr.status /\ tr.open_price # None /\ tr.close_price = None
  /\ \A i, j \in 1..Len(close_orders) :
       close_orders[i][2] = close_orders[j][2] => i = j

CachedUnder(cache, ids) ==
  UNION {Range(cache[i][2]) : i \in {k \in 1..Len(cache) : cache[k][1] \in ids}}

\* C29 (out-of-order caching): a message read by _receive under an id that is
\* not awaited is appended to cached_results under its own id, and a _receive
\* that finds an awaited id in the cache returns a message cached under it,
\* as a message, and reads nothing from the channel.
C29_CachedReturned ==
  [][/\ (g_pc \in {"waiting", "listening"} /\ toClient'[1] # toClient[1]
         /\ Len(toClient'[1]) < Len(toClient[1])
         /\ ~Matches(Head(toClient[1]), ReceiveIds)) =>
          /\ HasKey(cached_results'[1], Head(toClient[1]).RequestID)
          /\ LET entry == Get(cached_results'[1], Head(toClient[1]).RequestID)
             IN  entry[Len(entry)] = Head(toClient[1])
     /\ (g_pc = "idle" /\ g_pc' = "idle" /\ g_out' # g_out) =>
          /\ g_out'.receive = "message"
          /\ g_out'.result \in CachedUnder(cached_results[1],
                                           IF g_out'.call = 0 THEN Awaited(1)
                                           ELSE {assigned'[1][g_out'.call]})
          /\ toClient' = toClient]_vars

\* client 1 takes a message off its inbound channel in this step
Consumed ==
  /\ cl_pc[1] = "listen"
  /\ Len(toClient'[1]) < Len(toClient[1])

C31_NoDecisionWithoutBar ==
  [][(st_pc' # st_pc \/ trades' # trades \/ unique_id' # unique_id) =>
       /\ current_bar' # NoPriceBar
       /\ current_time' = current_bar'.time
       /\ current_time' # None
       /\ bar_no' >= 1
       /\ \A t \in 1..Len(trades') :
            t > Len(trades) => trades'[t].open_time = current_time']_vars

\* the first pass on the first bar made a trade
C31_Witness ==
  /\ bar_no = 1
  /\ st_pc = "added"
  /\ Len(trades) = 1
  /\ trades[1].born = 1
  /\ trades[1].open_time = current_bar.time

\* C32 (time-limit monitor): TimeLimitTradeMonitor.notify_single returns
\* False exactly when the time from the trade's open_time to the current
\* bar's time exceeds the time limit, and True otherwise.
C32_TimeLimit ==
  mon.single # "none" =>
    mon.single = PyBool(~(mon.bar_time - mon.open_time > mon.time_limit))

\* C33 (composite monitor): MultiTradeMonitor.notify_single returns False
\* whenever one of its children returns False, and True only when every
\* child returns True.
C33_Composite ==
  mon.multi # "none" =>
    /\ (\E i \in 1..Len(mon.children) : ~mon.children[i]) => mon.multi = "False"
    /\ mon.multi = "True" => \A i \in 1..Len(mon.children) : mon.children[i]

\* C34 (bounded connect): connect makes at most 5 attempts and sends at most
\* 5 handshakes; it returns only on a reply without Error, and when 5
\* attempts have ended without such a reply the client has given up.
C34_BoundedConnect ==
  /\ attempts <= 5
  /\ cn_sent <= 5
  /\ cn_pc = "returned" => cn_result[Len(cn_result)] = "Ports"
  /\ (Len(cn_result) >= 5 /\ \A i \in 1..Len(cn_result) : cn_result[i] # "Ports") =>
       cn_pc = "quit"

PendingIds == Range(Keys(open_orders)) \cup Range(Keys(close_orders))

\* C35 (order ids): unique_id never decreases, an id that becomes pending is
\* greater than every id minted before, no id is a key of both open_orders
\* and close_orders, and every pending id is at most unique_id.
C35_OrderIds ==
  [][/\ unique_id' >= unique_id
     /\ \A id \in PendingIds' \ PendingIds : id > unique_id /\ id <= unique_id'
     /\ Range(Keys(open_orders')) \cap Range(Keys(close_orders')) = {}
     /\ Cardinality(PendingIds') = Len(open_orders') + Len(close_orders')
     /\ \A id \in PendingIds' : id >= 1 /\ id <= unique_id']_vars

\* two close orders are pending under the ids minted last, after the two
\* open orders that used ids 1 and 2
C35_Witness ==
  /\ Len(close_orders) = 2
  /\ unique_id = 4
  /\ Range(Keys(close_orders)) = {3, 4}
  /\ open_orders = <<>>

\* C36 (push ids are always awaited): whenever a listening client takes a
\* message off its inbound channel, the message is a push whose RequestID is
\* among the ids Gateway.listen awaits at that moment, so nothing is cached.
C36_PushAwaited ==
  [][\A c \in Channels :
       (cl_pc[c] = "listen" /\ Len(toClient'[c]) < Len(toClient[c])) =>
         /\ Head(toClient[c]).Type \in TickTypes \cup {"Server Exit"}
         /\ Head(toClient[c]).RequestID \in Awaited(c)
         /\ Head(toClient[c]).Type \in {"Prepare for Live Bars", "End of Live Bars",
                                        "Server Exit"} =>
              Head(toClient[c]).RequestID = status_id[c]
         /\ Head(toClient[c]).Type = "Live Bar" =>
              HasKey(request_to_stock[c], Head(toClient[c]).RequestID)
         /\ cached_results'[c] = <<>>]_vars

\* client 1 has read the bars of two symbols and the Server Exit, and its
\* status id moved on with the Finalise it sent after the tick
C36_Witness ==
  /\ cl_pc[1] = "exited"
  /\ Len(new_bars[1]) = 2
  /\ Len(request_to_stock[1]) = 2
  /\ status_id[1] >= 3
  /\ cached_results[1] = <<>>

\* C37 (single processing per bar): a bar delivered to the stock causes one
\* processNewBar pass, hence one makeDecision call: no two trades are made on
\* the same bar, and the orders pending when the pass over a bar has run are
\* not resolved while that bar is still the current one.
C37_SinglePass ==
  [][/\ \A t, u \in 1..Len(trades') : trades'[t].born = trades'[u].born => t = u
     /\ bar_no' = bar_no =>
          /\ \A i \in 1..Len(close_orders) :
               \E j \in 1..Len(close_orders') : close_orders'[j] = close_orders[i]
          /\ Len(trades') = Len(trades)]_vars

\* C38 (cache entries are consumed): when a _receive ends on a hit in
\* cached_results, what it handed out is no longer cached, so that a later
\* _receive awaiting the same ids has to read the channel.
C38_CacheConsumed ==
  [][(g_pc = "idle" /\ g_pc' = "idle" /\ g_out'.receive = "list" /\ g_out' # g_out) =>
       ~CacheHit(cached_results'[1],
                 IF g_out'.call = 0 THEN Awaited(1) ELSE {assigned'[1][g_out'.call]})]_vars

\* C39 (at most one close order per trade): at any time a trade is the value
\* of at most one entry of close_orders, and once its close order was filled
\* it is not filled again.
C39_OneCloseOrder ==
  [][/\ \A i, j \in 1..Len(close_orders') :
          close_orders'[i][2] = close_orders'[j][2] => i = j
     /\ \A t \in 1..Len(trades) :
          trades[t].closed # None =>
            /\ trades'[t].closed = trades[t].closed
            /\ trades'[t].close_price = trades[t].close_price
            /\ ~trades'[t].status]_vars


\* the subscriptions client c has sent: request_to_stock holds one per
\* subscribeToMarketData call
Registered(c) ==
  \A k \in 1..Len(request_to_stock[c]) :
    LET id == request_to_stock[c][k][1]
        symbol == request_to_stock[c][k][2] IN
    /\ HasKey(symbols_to_requests, symbol)
    /\ <<c, id>> \in Range(Get(symbols_to_requests, symbol))

====
